---- MODULE Spec2Model ----
(***************************************************************************)
(* A model of tiktok-dl's identifier classes (Username, Link, Date), of the *)
(* UserConfig store of tiktok_common.py, of list_user_objects of           *)
(* tiktok_config.py and of process_inputs, download_st and download_mt of  *)
(* tiktok_dl.py.                                                           *)
(*                                                                         *)
(* A Python str is a sequence of one-character strings, so that strip(),   *)
(* lower(), find() and the regular expressions are computed character by   *)
(* character as the code computes them.  A decoded JSON value is a record  *)
(* [t, v, items]: t is its JSON type, v the characters of a string (or the *)
(* digits of a number), items the elements of an array.                    *)
(***************************************************************************)
EXTENDS Integers, Sequences, FiniteSets, TLC

VARIABLES config, saved, op, res, dl

vars == <<config, saved, op, res, dl>>

\* dl when no download has been called: dl.pc is where the caller of
\* download_st or download_mt is, dl.runs the calls of download_st by thread
NoDownload == [pc |-> "idle", runs |-> <<>>]

(***************************************************************************)
(* Characters and str methods                                              *)
(***************************************************************************)

\* str.isspace() on the characters of the model's alphabet
Whitespace == {" ", "\t", "\n", "\r"}

\* the class [a-z] of the regular expressions
LowerLetters ==
    {"a", "b", "c", "d", "e", "f", "g", "h", "i", "j", "k", "l", "m",
     "n", "o", "p", "q", "r", "s", "t", "u", "v", "w", "x", "y", "z"}

\* the class \d of the regular expressions (ASCII digits)
Digits == {"0", "1", "2", "3", "4", "5", "6", "7", "8", "9"}

\* the class [a-z\d_.] of Username.is_valid and Link.is_valid
UserChars == LowerLetters \cup Digits \cup {"_", "."}

\* str.lower() on one character; the upper-case letters of the alphabet
LowerChar(c) ==
    CASE c = "A" -> "a"
      [] c = "B" -> "b"
      [] c = "H" -> "h"
      [] c = "T" -> "t"
      [] c = "V" -> "v"
      [] OTHER -> c

\* str.lower()
Lower(s) == [i \in 1..Len(s) |-> LowerChar(s[i])]

RECURSIVE LStrip(_)
\* str.lstrip()
LStrip(s) ==
    IF s # <<>> /\ Head(s) \in Whitespace THEN LStrip(Tail(s)) ELSE s

RECURSIVE RStrip(_)
\* str.rstrip()
RStrip(s) ==
    IF s # <<>> /\ s[Len(s)] \in Whitespace
    THEN RStrip(SubSeq(s, 1, Len(s) - 1))
    ELSE s

\* str.strip()
Strip(s) == RStrip(LStrip(s))

\* str.find(c) for a one-character needle, as a 1-based index; 0 = not found
\* (Python's -1)
Find(s, c) ==
    IF \E i \in 1..Len(s) : s[i] = c
    THEN CHOOSE i \in 1..Len(s) : s[i] = c /\ \A j \in 1..(i - 1) : s[j] # c
    ELSE 0

(***************************************************************************)
(* Username                                                                *)
(***************************************************************************)

\* a Username that keeps the string as it is given
UsernameAsGiven(user) == user

\* Username.__init__: the name property
Username(user) == Lower(Strip(user))

\* a validity of user names that does not admit "_" and "."
UsernameIsValidAlnum(name) ==
    /\ Len(name) >= 1
    /\ \A i \in 1..Len(name) : name[i] \in LowerLetters \cup Digits

\* Username.is_valid: fullmatch of [a-z\d_.]+
UsernameIsValid(name) ==
    /\ Len(name) >= 1
    /\ \A i \in 1..Len(name) : name[i] \in UserChars

(***************************************************************************)
(* Date                                                                    *)
(***************************************************************************)

\* the repetition count of \d{8}
DateLen == 8

\* a Date that keeps the string as it is given
DateAsGiven(date) == date

\* Date.__init__: the date property
Date(date) == Strip(date)

\* a Date.is_valid that looks at the first 8 characters only (re.match)
DateIsValidPrefix(date) ==
    /\ Len(date) >= DateLen
    /\ \A i \in 1..DateLen : date[i] \in Digits

\* Date.is_valid: fullmatch of \d{8}
DateIsValid(date) ==
    /\ Len(date) = DateLen
    /\ \A i \in 1..Len(date) : date[i] \in Digits

(***************************************************************************)
(* Link                                                                    *)
(***************************************************************************)

\* the repetition count of \d{19}
IdLen == 19

\* the literal "https://www.tiktok.com/@" of the expression
LinkPrefix ==
    <<"h", "t", "t", "p", "s", ":", "/", "/", "w", "w", "w", ".",
      "t", "i", "k", "t", "o", "k", ".", "c", "o", "m", "/", "@">>

\* the literal "/video/" of the expression
LinkVideo == <<"/", "v", "i", "d", "e", "o", "/">>

\* one character of the expression's prefix against one of the string: the
\* two dots of the expression are not escaped and match any character but a
\* newline
PrefixCharMatches(i, c) ==
    IF LinkPrefix[i] = "." THEN c # "\n" ELSE c = LinkPrefix[i]

\* Link.__init__: the link property (strip, lower, cut at the first '?',
\* drop one trailing '/')
CleanLink(link) ==
    LET l1 == Lower(Strip(link))
        q  == Find(l1, "?")
        l2 == IF q >= 1 THEN SubSeq(l1, 1, q - 1) ELSE l1
    IN  IF l2 # <<>> /\ l2[Len(l2)] = "/"
        THEN SubSeq(l2, 1, Len(l2) - 1)
        ELSE l2

\* Link.is_valid: fullmatch of
\* https://www.tiktok.com/@[a-z\d_.]+/video/\d{19}
LinkIsValid(l) ==
    LET p == Len(LinkPrefix) IN
    /\ Len(l) > p
    /\ \A i \in 1..p : PrefixCharMatches(i, l[i])
    /\ LET rest == SubSeq(l, p + 1, Len(l))
           \* '/' is outside the class, so the name is the maximal run
           stop == IF \E i \in 1..Len(rest) : rest[i] \notin UserChars
                   THEN CHOOSE i \in 1..Len(rest) :
                            /\ rest[i] \notin UserChars
                            /\ \A j \in 1..(i - 1) : rest[j] \in UserChars
                   ELSE Len(rest) + 1
           tail == SubSeq(rest, stop, Len(rest))
           v    == Len(LinkVideo)
       IN  /\ stop >= 2
           /\ Len(tail) = v + IdLen
           /\ SubSeq(tail, 1, v) = LinkVideo
           /\ \A i \in (v + 1)..Len(tail) : tail[i] \in Digits

\* Link.__init__: the user property of a cleaned link
LinkUser(l) ==
    IF LinkIsValid(l)
    THEN LET user == SubSeq(l, Find(l, "@") + 1, Len(l))
             \* user[:user.find('/')]
         IN  Username(SubSeq(user, 1, Find(user, "/") - 1))
    ELSE Username(<<>>)

(***************************************************************************)
(* Decoded JSON values                                                     *)
(***************************************************************************)

\* a key that the JSON object does not have
JAbsent == [t |-> "absent", v |-> <<>>, items |-> <<>>]

\* a JSON string
JStr(s) == [t |-> "str", v |-> s, items |-> <<>>]

\* a JSON number, by its digits
JNum(digits) == [t |-> "num", v |-> digits, items |-> <<>>]

\* a JSON array
JList(items) == [t |-> "list", v |-> <<>>, items |-> items]

(***************************************************************************)
(* UserConfig: the store is a function from the names of its Username keys *)
(* to their user objects {'notbefore', 'ignore', 'comment'}                *)
(***************************************************************************)

\* the outcome of a call: the exception it raised ("ok" when it returned),
\* the value it returned and the configuration it leaves
Return(cfg, val) == [err |-> "ok", val |-> val, cfg |-> cfg]

Raise(cfg, e) == [err |-> e, val |-> "None", cfg |-> cfg]

\* dict assignment d[k] = x
DictSet(d, k, x) ==
    [u \in DOMAIN d \cup {k} |-> IF u = k THEN x ELSE d[u]]

\* the user object that __create_new_user stores
NewUserObject ==
    [notbefore |-> <<"2", "0", "0", "0", "0", "1", "0", "1">>,
     ignore    |-> <<>>,
     comment   |-> JStr(<<>>)]

\* `user in self.config` for a Username: every Username has the same hash
\* and __eq__ compares the names
HasUser(cfg, name) == name \in DOMAIN cfg

\* UserConfig.user_is_configured(user) for a str argument
UserIsConfigured(cfg, user) == Return(cfg, HasUser(cfg, Username(user)))

\* UserConfig.__create_new_user
CreateNewUser(cfg, name) ==
    IF ~UsernameIsValid(name)
    THEN Raise(cfg, "KeyError")
    ELSE Return(DictSet(cfg, name, NewUserObject), "None")

\* UserConfig.__set_property
SetProperty(cfg, name, property, value) ==
    LET made == IF ~HasUser(cfg, name)
                THEN CreateNewUser(cfg, name)
                ELSE Return(cfg, "None")
    IN  IF made.err # "ok"
        THEN made
        ELSE Return(DictSet(made.cfg, name,
                            [made.cfg[name] EXCEPT ![property] = value]),
                    "None")

\* a __get_property that makes the user object it does not find
GetPropertyCreating(cfg, name, property) ==
    IF HasUser(cfg, name)
    THEN Return(cfg, cfg[name][property])
    ELSE Raise(CreateNewUser(cfg, name).cfg, "KeyError")

\* UserConfig.__get_property, for the three properties of a user object
GetProperty(cfg, name, property) ==
    IF HasUser(cfg, name)
    THEN Return(cfg, cfg[name][property])
    ELSE Raise(cfg, "KeyError")

\* a get_not_before that looks the str up as it is given
GetNotBeforeAsGiven(cfg, user) == GetProperty(cfg, user, "notbefore")

\* UserConfig.get_not_before(user) for a str argument
GetNotBefore(cfg, user) == GetProperty(cfg, Username(user), "notbefore")

\* UserConfig.get_comment(user) for a str argument
GetComment(cfg, user) == GetProperty(cfg, Username(user), "comment")

\* a set_not_before that makes the user object before it tests the date
SetNotBeforeCreateFirst(cfg, user, date) ==
    LET made == IF ~HasUser(cfg, Username(user))
                THEN CreateNewUser(cfg, Username(user))
                ELSE Return(cfg, "None")
    IN  IF made.err # "ok"
        THEN made
        ELSE IF ~DateIsValid(Date(date))
             THEN Raise(made.cfg, "ValueError")
             ELSE SetProperty(made.cfg, Username(user), "notbefore", Date(date))

\* UserConfig.set_not_before(user, date) for str arguments
SetNotBefore(cfg, user, date) ==
    IF ~DateIsValid(Date(date))
    THEN Raise(cfg, "ValueError")
    ELSE SetProperty(cfg, Username(user), "notbefore", Date(date))

\* UserConfig.set_comment(user, comment) for a str user and any comment
SetComment(cfg, user, comment) ==
    SetProperty(cfg, Username(user), "comment", comment)

\* UserConfig.set(property, user, value)
SetAny(cfg, property, user, value) ==
    LET name == Username(user)
        ret  == ~HasUser(cfg, name)
        done == CASE property = "notbefore" ->
                         \* a value that is no str has no is_valid()
                         IF value.t = "str"
                         THEN SetNotBefore(cfg, user, value.v)
                         ELSE Raise(cfg, "AttributeError")
                  [] property = "comment"   -> SetComment(cfg, user, value)
                  [] property = "ignore"    -> Raise(cfg, "IgnoreError")
                  [] OTHER                  -> Raise(cfg, "AttributeError")
    IN  IF done.err # "ok"
        THEN done
        ELSE Return(done.cfg, IF ret THEN name ELSE Username(<<>>))

\* UserConfig.get_ignore_links(user): Link(link) is built from each stored
\* Link object, which has no strip()
GetIgnoreLinks(cfg, user) ==
    LET name == Username(user) IN
    IF HasUser(cfg, name)
    THEN IF cfg[name].ignore = <<>>
         THEN Return(cfg, <<>>)
         ELSE Raise(cfg, "AttributeError")
    ELSE Raise(cfg, "KeyError")

\* list.remove(x): drops the first occurrence
ListRemove(list, x) ==
    LET i == CHOOSE k \in 1..Len(list) :
                 list[k] = x /\ \A j \in 1..(k - 1) : list[j] # x
    IN  SubSeq(list, 1, i - 1) \o SubSeq(list, i + 1, Len(list))

\* x in list
ListHas(list, x) == \E i \in 1..Len(list) : list[i] = x

\* UserConfig.toggle_ignore_link(link) for a str argument
ToggleIgnoreLink(cfg, link) ==
    LET l    == CleanLink(link)
        user == LinkUser(l)
        made == IF ~HasUser(cfg, user)
                THEN CreateNewUser(cfg, user)
                ELSE Return(cfg, "None")
    IN  IF made.err # "ok"
        THEN made
        ELSE LET list == made.cfg[user].ignore IN
             IF ListHas(list, l)
             THEN Return(DictSet(made.cfg, user,
                      [made.cfg[user] EXCEPT !.ignore = ListRemove(list, l)]),
                      FALSE)
             ELSE Return(DictSet(made.cfg, user,
                      [made.cfg[user] EXCEPT !.ignore = Append(list, l)]),
                      TRUE)

\* UserConfig.delete_user(user) for a str argument
DeleteUser(cfg, user) ==
    LET name == Username(user) IN
    IF HasUser(cfg, name)
    THEN Return([u \in DOMAIN cfg \ {name} |-> cfg[u]], "None")
    ELSE Raise(cfg, "KeyError")

(***************************************************************************)
(* load_config and save_config.  A file is [kind, entries]: kind is        *)
(* "missing", "malformed" (not JSON) or "object"; entries are the members  *)
(* of the top-level object in document order, each [key, t, nb, cm, ig]:   *)
(* the raw key, the JSON type t of its value and, for an object, the       *)
(* values under "notbefore", "comment" and "ignore".                       *)
(***************************************************************************)

\* Username.__hash__: @dataclass(frozen=True) generates it from the fields
\* of the class, and Username declares none, so every Username hashes as
\* the empty tuple
HashOfUsername(name) == [of |-> "tuple", chars |-> <<>>]

\* str.__hash__: a hash of the characters
HashOfStr(s) == [of |-> "str", chars |-> s]

\* `new_key in new_config`: a dict lookup finds a key that has the hash of
\* the probe and compares equal to it (Username.__eq__ against a str)
UsernameInStrDict(name, entries) ==
    \E i \in 1..Len(entries) :
        /\ HashOfStr(entries[i].key) = HashOfUsername(name)
        /\ entries[i].key = name

RECURSIVE LoadIgnore(_, _, _)
\* load_config: the loop over value["ignore"], from element i on
LoadIgnore(items, i, list) ==
    IF i > Len(items)
    THEN [err |-> "ok", list |-> list]
    ELSE IF items[i].t # "str"
         THEN \* Link(link) calls link.strip()
              [err |-> "AttributeError", list |-> list]
         ELSE LET new_link == CleanLink(items[i].v) IN
              LoadIgnore(items, i + 1,
                         IF LinkIsValid(new_link)
                         THEN Append(list, new_link)
                         ELSE list)

\* what `for link in value["ignore"]` iterates over: the elements of an
\* array, the characters of a string
IterItems(ig) ==
    IF ig.t = "str"
    THEN [i \in 1..Len(ig.v) |-> JStr(<<ig.v[i]>>)]
    ELSE ig.items

\* load_config: the body of the loop for one member of the document
LoadItem(cfg, e, entries) ==
    LET new_key == Username(e.key) IN
    IF new_key # e.key /\ UsernameInStrDict(new_key, entries)
    THEN Return(cfg, "None")
    ELSE
    LET made == CreateNewUser(cfg, new_key) IN
    IF made.err # "ok" THEN made
    ELSE IF e.t # "object" THEN Raise(made.cfg, "TypeError")
    ELSE IF e.nb.t = "absent" THEN Raise(made.cfg, "KeyError")
    ELSE IF e.nb.t # "str" THEN Raise(made.cfg, "AttributeError")
    ELSE IF ~DateIsValid(Date(e.nb.v)) THEN Raise(made.cfg, "ValueError")
    ELSE
    LET c1 == DictSet(made.cfg, new_key,
                  [made.cfg[new_key] EXCEPT !.notbefore = Date(e.nb.v)])
    IN
    IF e.cm.t = "absent" THEN Raise(c1, "KeyError")
    ELSE
    LET c2 == DictSet(c1, new_key, [c1[new_key] EXCEPT !.comment = e.cm])
    IN
    IF e.ig.t = "absent" THEN Raise(c2, "KeyError")
    ELSE IF e.ig.t \notin {"list", "str"} THEN Raise(c2, "TypeError")
    ELSE
    LET got == LoadIgnore(IterItems(e.ig), 1, c2[new_key].ignore)
        c3  == DictSet(c2, new_key, [c2[new_key] EXCEPT !.ignore = got.list])
    IN  IF got.err # "ok" THEN Raise(c3, got.err) ELSE Return(c3, "None")

RECURSIVE LoadItems(_, _, _)
\* load_config: the loop over new_config.items(), from member i on
LoadItems(entries, i, cfg) ==
    IF i > Len(entries)
    THEN Return(cfg, "None")
    ELSE LET r == LoadItem(cfg, entries[i], entries) IN
         IF r.err # "ok" THEN r ELSE LoadItems(entries, i + 1, r.cfg)

\* load_config up to the assignment of self.config: open() and json.load(),
\* then the local config built from an empty dict
BuildConfig(file) ==
    CASE file.kind = "missing"   -> Raise(<<>>, "FileNotFoundError")
      [] file.kind = "malformed" -> Raise(<<>>, "JSONDecodeError")
      [] OTHER                   -> LoadItems(file.entries, 1, <<>>)

\* a load_config that fills self.config itself instead of a local dict
LoadConfigInPlace(cfg, file) ==
    LET built == BuildConfig(file) IN
    IF built.err = "ok"
    THEN Return(built.cfg, "None")
    ELSE Raise(built.cfg, built.err)

\* UserConfig.load_config: self.config is assigned after the loop only
LoadConfig(cfg, file) ==
    LET built == BuildConfig(file) IN
    IF built.err = "ok"
    THEN Return(built.cfg, "None")
    ELSE Raise(cfg, built.err)

\* the file that save_config leaves and the exception of json.dump: the
\* keys of a non-empty self.config are Username objects, which the encoder
\* rejects after it has written the opening brace
SaveConfig(cfg) ==
    IF DOMAIN cfg = {}
    THEN [err |-> "ok", file |-> [kind |-> "object", entries |-> <<>>]]
    ELSE [err |-> "TypeError", file |-> [kind |-> "malformed", entries |-> <<>>]]

(***************************************************************************)
(* The arguments of the calls                                              *)
(***************************************************************************)

\* "https://www.tiktok.com/@{user}/video/{n ones}"
MkLink(user, n) == LinkPrefix \o user \o LinkVideo \o [i \in 1..n |-> "1"]

LinkA == MkLink(<<"a">>, IdLen)

LinkB == MkLink(<<"b">>, IdLen)

\* LinkA as a user may paste it: upper-case name, trailing slash and query
LinkAVar == MkLink(<<"A">>, IdLen) \o <<"/", "?", "x">>

\* an id of 18 digits
LinkAShort == MkLink(<<"a">>, IdLen - 1)

\* the links given to toggle_ignore_link
RawLinks == {LinkA, LinkAVar, LinkB, LinkAShort, <<"l">>}

\* the user names given to the calls: "a", "\tA " and the invalid "!"
RawUsers == {<<"a">>, <<"\t", "A", " ">>, <<"!">>}

DateOne == <<"2", "0", "2", "0", "0", "5", "0", "5">>

\* " 20200505\n": a date, or a comment, in whitespace
Padded == <<" ">> \o DateOne \o <<"\n">>

\* "2020050": 7 digits
DateShort == SubSeq(DateOne, 1, DateLen - 1)

\* the dates given to set_not_before
RawDates == {Padded, DateShort}

\* the list [9]
ListNine == JList(<<JNum(<<"9">>)>>)

\* the comments given to set_comment and the values given to set()
Values == {JStr(Padded), ListNine}

\* the property names given to set()
PropertyNames == {"notbefore", "comment", "ignore", "zzz"}

\* a member of the document whose value is an object
Obj(key, nb, cm, ig) ==
    [key |-> key, t |-> "object", nb |-> nb, cm |-> cm, ig |-> ig]

\* the values of the members of the documents
RecOne == [nb |-> JStr(DateOne), cm |-> JStr(Padded),
           ig |-> JList(<<JStr(LinkA)>>)]

RecTwo == [nb |-> JStr(<<" ">> \o NewUserObject.notbefore), cm |-> JStr(<<>>),
           ig |-> JList(<<JStr(LinkAVar), JStr(LinkA)>>)]

RecMixed == [nb |-> JStr(DateOne), cm |-> ListNine,
             ig |-> JList(<<JStr(LinkB), JStr(LinkAShort), JStr(<<"l">>)>>)]

\* records that have the three keys, a date for "notbefore" and strings in
\* the list "ignore"
GoodRecs == {RecOne, RecTwo, RecMixed}

\* records with one field missing or of another type
BadRecs ==
    {[RecOne EXCEPT !.nb = JStr(DateShort)],
     [RecOne EXCEPT !.nb = JNum(DateOne)],
     [RecOne EXCEPT !.nb = JAbsent],
     [RecOne EXCEPT !.cm = JAbsent],
     [RecOne EXCEPT !.ig = JAbsent],
     [RecOne EXCEPT !.ig = JNum(<<"5">>)],
     [RecOne EXCEPT !.ig = JStr(<<"l">>)],
     [RecOne EXCEPT !.ig = JList(<<JStr(LinkA), JNum(<<"2">>)>>)]}

\* the valid keys of the documents: "a", "A", " B"
GoodKeys == {<<"a">>, <<"A">>, <<" ", "B">>}

\* members that load without an error
GoodEntries == {Obj(k, r.nb, r.cm, r.ig) : k \in GoodKeys, r \in GoodRecs}

\* the members a document is made of: the good ones, "a" with each bad
\* record, the invalid key "!" and "a" with a number for its value
Entries ==
    GoodEntries
    \cup {Obj(<<"a">>, r.nb, r.cm, r.ig) : r \in BadRecs}
    \cup {Obj(<<"!">>, RecOne.nb, RecOne.cm, RecOne.ig),
          [Obj(<<"a">>, JAbsent, JAbsent, JAbsent) EXCEPT !.t = "num"]}

\* the largest number of members of a document
MaxDocLen == 2

\* the JSON objects: their keys are pairwise different
Objects ==
    {es \in UNION {[1..n -> Entries] : n \in 0..MaxDocLen} :
        \A i, j \in 1..Len(es) : i # j => es[i].key # es[j].key}

NoFile == [kind |-> "missing", entries |-> <<>>]

NotJson == [kind |-> "malformed", entries |-> <<>>]

\* the files given to load_config
Files == {[kind |-> "object", entries |-> es] : es \in Objects}
         \cup {NoFile, NotJson}

\* a document with one member
OneMember(e) == [kind |-> "object", entries |-> <<e>>]

\* the documents that spell one user name twice: "a" and "A", in either
\* order, with the records RecOne and RecTwo
Twins ==
    {[kind |-> "object",
      entries |-> <<Obj(k1, r1.nb, r1.cm, r1.ig), Obj(k2, r2.nb, r2.cm, r2.ig)>>] :
        k1 \in {<<"a">>, <<"A">>}, k2 \in {<<"a">>, <<"A">>},
        r1 \in {RecOne, RecTwo}, r2 \in {RecOne, RecTwo}}

\* the files of the store's long runs: a missing file, one that is not
\* JSON, the empty document, the documents of one member that loads, and
\* the twins
StoreFiles ==
    {NoFile, NotJson, [kind |-> "object", entries |-> <<>>]}
    \cup {OneMember(e) : e \in GoodEntries}
    \cup {f \in Twins : f.entries[1].key # f.entries[2].key}

(***************************************************************************)
(* The store as a state machine: config is UserConfig.config, saved the    *)
(* file that save_config writes, op the last call and res its outcome.     *)
(***************************************************************************)

\* the state a call leaves: r is the outcome of the call
Called(name, args, r) ==
    \E out \in {r} :
        /\ config' = out.cfg
        /\ op' = [name |-> name, args |-> args]
        /\ res' = [err |-> out.err, val |-> out.val]

\* UserConfig.__init__, before any file is saved
Init ==
    /\ config = <<>>
    /\ saved = NoFile
    /\ op = [name |-> "__init__", args |-> <<>>]
    /\ res = [err |-> "ok", val |-> "None"]
    /\ dl = NoDownload

Load(file) ==
    /\ Called("load_config", <<file>>, LoadConfig(config, file))
    /\ UNCHANGED <<saved, dl>>

Save ==
    /\ saved' = SaveConfig(config).file
    /\ op' = [name |-> "save_config", args |-> <<>>]
    /\ res' = [err |-> SaveConfig(config).err, val |-> "None"]
    /\ UNCHANGED <<config, dl>>

CallUserIsConfigured(user) ==
    /\ Called("user_is_configured", <<user>>, UserIsConfigured(config, user))
    /\ UNCHANGED <<saved, dl>>

CallGetNotBefore(user) ==
    /\ Called("get_not_before", <<user>>, GetNotBefore(config, user))
    /\ UNCHANGED <<saved, dl>>

CallGetComment(user) ==
    /\ Called("get_comment", <<user>>, GetComment(config, user))
    /\ UNCHANGED <<saved, dl>>

CallGetIgnoreLinks(user) ==
    /\ Called("get_ignore_links", <<user>>, GetIgnoreLinks(config, user))
    /\ UNCHANGED <<saved, dl>>

CallSetNotBefore(user, date) ==
    /\ Called("set_not_before", <<user, date>>,
              SetNotBefore(config, user, date))
    /\ UNCHANGED <<saved, dl>>

CallSetComment(user, comment) ==
    /\ Called("set_comment", <<user, comment>>,
              SetComment(config, user, comment))
    /\ UNCHANGED <<saved, dl>>

CallSet(property, user, value) ==
    /\ Called("set", <<property, user, value>>,
              SetAny(config, property, user, value))
    /\ UNCHANGED <<saved, dl>>

CallToggleIgnoreLink(link) ==
    /\ Called("toggle_ignore_link", <<link>>, ToggleIgnoreLink(config, link))
    /\ UNCHANGED <<saved, dl>>

CallDeleteUser(user) ==
    /\ Called("delete_user", <<user>>, DeleteUser(config, user))
    /\ UNCHANGED <<saved, dl>>

\* the calls on a store that is not saved
Next ==
    \/ \E file \in StoreFiles : Load(file)
    \/ \E user \in RawUsers : CallUserIsConfigured(user)
    \/ \E user \in RawUsers : CallGetNotBefore(user)
    \/ \E user \in RawUsers : CallGetComment(user)
    \/ \E user \in RawUsers : CallGetIgnoreLinks(user)
    \/ \E user \in RawUsers, date \in RawDates : CallSetNotBefore(user, date)
    \/ \E user \in RawUsers, comment \in Values :
           CallSetComment(user, comment)
    \/ \E property \in PropertyNames, user \in RawUsers, value \in Values :
           CallSet(property, user, value)
    \/ \E link \in RawLinks : CallToggleIgnoreLink(link)
    \/ \E user \in RawUsers : CallDeleteUser(user)

Spec == Init /\ [][Next]_vars

(***************************************************************************)
(* One load_config of any of the files, on a store that earlier calls      *)
(* have filled                                                             *)
(***************************************************************************)

\* after set_not_before("a", "20200505")
StoreA == SetNotBefore(<<>>, <<"a">>, DateOne).cfg

\* and after set_comment("b", [9]) and toggle_ignore_link(LinkB)
StoreAB == ToggleIgnoreLink(SetComment(StoreA, <<"b">>, ListNine).cfg, LinkB).cfg

PriorStores == {<<>>, StoreA, StoreAB}

InitLoad ==
    /\ config \in PriorStores
    /\ saved = NoFile
    /\ op = [name |-> "__init__", args |-> <<>>]
    /\ res = [err |-> "ok", val |-> "None"]
    /\ dl = NoDownload

NextLoad == op.name = "__init__" /\ \E file \in Files : Load(file)

SpecLoad == InitLoad /\ [][NextLoad]_vars

(***************************************************************************)
(* The store and the file it is saved to                                   *)
(***************************************************************************)

NextSave ==
    \/ Save
    \/ \E file \in StoreFiles \cup {saved} : Load(file)
    \/ \E user \in RawUsers, date \in RawDates : CallSetNotBefore(user, date)
    \/ \E user \in RawUsers, comment \in Values :
           CallSetComment(user, comment)
    \/ \E link \in RawLinks : CallToggleIgnoreLink(link)
    \/ \E user \in RawUsers : CallDeleteUser(user)

SpecSave == Init /\ [][NextSave]_vars

(***************************************************************************)
(* Link and Date on their own: a str is given to Link() or Date(), the     *)
(* object may be built again from its own string, and is_valid() is asked. *)
(***************************************************************************)

\* the characters of the short strings given to Link()
RawChars == {"a", "A", "/", "?", " "}

\* the largest length of a short string
MaxRawLen == 3

ShortStrings == UNION {[1..n -> RawChars] : n \in 0..MaxRawLen}

\* what follows the id of a link that is pasted
LinkSuffixes ==
    {<<>>, <<"/">>, <<"/", "/">>, <<"?", "x">>, <<"/", "?", "x">>,
     <<" ", "?", "x">>, <<" ">>}

\* the ids of the long strings: 18, 19 and 20 digits, and 19 characters of
\* which the last is a letter
LinkIds ==
    {[i \in 1..n |-> "1"] : n \in (IdLen - 1)..(IdLen + 1)}
    \cup {[i \in 1..IdLen |-> IF i = IdLen THEN "x" ELSE "1"]}

\* the user names of the long strings
LinkNames == {<<"a">>, <<"A">>, <<"a", "_", "1">>, <<"!">>}

\* "https://www.tiktok.com/@{name}/video/{id}{suffix}"
LongStrings ==
    {LinkPrefix \o name \o LinkVideo \o id \o suffix :
        name \in LinkNames, id \in LinkIds, suffix \in LinkSuffixes}

\* the strings given to Link()
LinkStrings == ShortStrings \cup LongStrings

\* the strings given to Date(): 7, 8 and 9 digits, 8 digits in whitespace
\* and 8 characters of which the last is a letter
DateStrings ==
    {[i \in 1..n |-> "1"] : n \in (DateLen - 1)..(DateLen + 1)}
    \cup {Padded, [i \in 1..DateLen |-> IF i = DateLen THEN "x" ELSE "1"]}

InitIds ==
    /\ config = <<>>
    /\ saved = NoFile
    /\ \E x \in LinkStrings \cup DateStrings :
           op = [name |-> "str", args |-> <<x>>]
    /\ res = [err |-> "ok", val |-> "None"]
    /\ dl = NoDownload

\* Link.__init__ for a str argument: the properties link and user
NewLink(x) ==
    /\ op' = [name |-> "Link", args |-> <<x>>]
    /\ res' = [err |-> "ok",
               val |-> [link |-> CleanLink(x), user |-> LinkUser(CleanLink(x))]]
    /\ UNCHANGED <<config, saved, dl>>

\* Link(x) for the str that was given
CallLink ==
    /\ op.name = "str"
    /\ op.args[1] \in LinkStrings
    /\ NewLink(op.args[1])

\* Link(str(link)) for the Link that was made
CallLinkAgain ==
    /\ op.name = "Link"
    /\ NewLink(res.val.link)

\* Link.is_valid() of the Link that was made
CallLinkIsValid ==
    /\ op.name = "Link"
    /\ op' = [name |-> "Link.is_valid", args |-> <<res.val.link>>]
    /\ res' = [err |-> "ok", val |-> LinkIsValid(res.val.link)]
    /\ UNCHANGED <<config, saved, dl>>

\* Date(x) for the str that was given
CallDate ==
    /\ op.name = "str"
    /\ op.args[1] \in DateStrings
    /\ op' = [name |-> "Date", args |-> op.args]
    /\ res' = [err |-> "ok", val |-> [date |-> Date(op.args[1])]]
    /\ UNCHANGED <<config, saved, dl>>

\* Date.is_valid() of the Date that was made
CallDateIsValid ==
    /\ op.name = "Date"
    /\ op' = [name |-> "Date.is_valid", args |-> <<res.val.date>>]
    /\ res' = [err |-> "ok", val |-> DateIsValid(res.val.date)]
    /\ UNCHANGED <<config, saved, dl>>

NextIds ==
    \/ CallLink
    \/ CallLinkAgain
    \/ CallLinkIsValid
    \/ CallDate
    \/ CallDateIsValid

SpecIds == InitIds /\ [][NextIds]_vars

(***************************************************************************)
(* tiktok_dl.process_inputs.  The world it runs in is [paths, files,       *)
(* pages]: paths maps each path that names a file to the file, files maps  *)
(* a file to its lines, pages maps a user name to the links that           *)
(* scrape_from_user finds on the user's page.  An outcome is [err, links,  *)
(* users, htmls, counts, log]; log lists the files opened, the pages       *)
(* scraped and the notices written, in order.                              *)
(***************************************************************************)

\* tiktok_common.clean_up_link: trim, lower-case, cut at the first '?',
\* drop one trailing '/'
clean_up_link(link) == CleanLink(link)

\* tiktok_common.link_is_valid for a str
link_is_valid(link) == LinkIsValid(link)

\* tiktok_common.clean_up_username: trim and lower-case
clean_up_username(user) == Lower(Strip(user))

\* tiktok_common.username_is_valid for a str
username_is_valid(user) == UsernameIsValid(user)

\* the looser pattern of extract_username_from_link: the link pattern with
\* a run of one or more digits for the id, matched at the start of the
\* cleaned link
LooseMatch(l) ==
    LET p == Len(LinkPrefix) IN
    /\ Len(l) > p
    /\ \A i \in 1..p : PrefixCharMatches(i, l[i])
    /\ LET rest == SubSeq(l, p + 1, Len(l))
           stop == IF \E i \in 1..Len(rest) : rest[i] \notin UserChars
                   THEN CHOOSE i \in 1..Len(rest) :
                            /\ rest[i] \notin UserChars
                            /\ \A j \in 1..(i - 1) : rest[j] \in UserChars
                   ELSE Len(rest) + 1
           tail == SubSeq(rest, stop, Len(rest))
           v    == Len(LinkVideo)
       IN  /\ stop >= 2
           /\ Len(tail) >= v + 1
           /\ SubSeq(tail, 1, v) = LinkVideo
           /\ tail[v + 1] \in Digits

\* tiktok_common.extract_username_from_link: the owner of the link, or
\* ValueError
extract_username_from_link(link) ==
    LET l == clean_up_link(link) IN
    IF LooseMatch(l)
    THEN LET user == SubSeq(l, Find(l, "@") + 1, Len(l))
         IN  [err |-> "ok",
              val |-> clean_up_username(SubSeq(user, 1, Find(user, "/") - 1))]
    ELSE [err |-> "ValueError", val |-> <<>>]

\* "<!DOCTYPE html>"
Doctype ==
    <<"<", "!", "D", "O", "C", "T", "Y", "P", "E", " ", "h", "t", "m", "l",
      ">">>

\* "https://"
Https == SubSeq(LinkPrefix, 1, 8)

\* s[i:i+len(t)] == t, for a 1-based i
SubAt(s, i, t) ==
    /\ i >= 1
    /\ i + Len(t) - 1 <= Len(s)
    /\ SubSeq(s, i, i + Len(t) - 1) = t

\* str.rfind(t) as a 1-based index; 0 = not found (Python's -1)
RFindSub(s, t) ==
    IF \E i \in 1..Len(s) : SubAt(s, i, t)
    THEN CHOOSE i \in 1..Len(s) :
             SubAt(s, i, t) /\ \A j \in (i + 1)..Len(s) : ~SubAt(s, j, t)
    ELSE 0

\* the candidate that scrape_from_file carves around the "/video/" at the
\* 1-based index i of a line: from the last "https://" before it to the
\* first '"' after it; a failed rfind leaves the last character of what is
\* before, a failed find drops the last character of what is after
Carve(line, i) ==
    LET before == SubSeq(line, 1, i - 1)
        after  == SubSeq(line, i, Len(line))
        r      == RFindSub(before, Https)
        q      == Find(after, "\"")
        first_half  == IF r >= 1
                       THEN SubSeq(before, r, Len(before))
                       ELSE SubSeq(before, Len(before), Len(before))
        second_half == IF q >= 1
                       THEN SubSeq(after, 1, q - 1)
                       ELSE SubSeq(after, 1, Len(after) - 1)
    IN  first_half \o second_half

RECURSIVE VideoFrom(_, _)
\* the indexes, from i on, of the non-overlapping "/video/" of a line
\* (re.finditer)
VideoFrom(line, i) ==
    IF \E j \in i..Len(line) : SubAt(line, j, LinkVideo)
    THEN LET j == CHOOSE j \in i..Len(line) :
                      /\ SubAt(line, j, LinkVideo)
                      /\ \A k \in i..(j - 1) : ~SubAt(line, k, LinkVideo)
         IN  {j} \cup VideoFrom(line, j + Len(LinkVideo))
    ELSE {}

\* the valid candidates of the lines of an HTML file, as <<line, index>>,
\* one per "/video/"
HtmlFinds(contents) ==
    UNION {{<<n, i>> : i \in {j \in VideoFrom(contents[n], 1) :
                                  link_is_valid(Carve(contents[n], j))}} :
           n \in 1..Len(contents)}

\* Path(input).is_file()
IsFile(world, path) == path \in DOMAIN world.paths

\* a comparison of the paths as strings
SamePathString(world, path1, path2) == path1 = path2

\* tiktok_common.the_same_filepath: os.path.samefile, False when a path
\* names no file
the_same_filepath(world, path1, path2) ==
    /\ IsFile(world, path1)
    /\ IsFile(world, path2)
    /\ world.paths[path1] = world.paths[path2]

\* scrape_from_user with the html method: the links of the user's page
scrape_from_user(world, user) ==
    IF user \in DOMAIN world.pages THEN world.pages[user] ELSE {}

\* an entry of the log
Event(ev, arg) == [ev |-> ev, arg |-> arg]

\* the outcome of process_inputs and of scrape_from_file
Outcome(err, links, users, htmls, counts, log) ==
    [err |-> err, links |-> links, users |-> users, htmls |-> htmls,
     counts |-> counts, log |-> log]

\* dict | dict: the right operand wins
DictMerge(d1, d2) ==
    [k \in DOMAIN d1 \cup DOMAIN d2 |-> IF k \in DOMAIN d2 THEN d2[k] ELSE d1[k]]

\* the largest depth of the calls of process_inputs inside one another
\* (the interpreter's recursion limit)
MaxDepth == 3

\* the branch of __process_inputs_internal that an input takes
ClassifyUserFirst(world, input) ==
    IF link_is_valid(clean_up_link(input)) THEN "link"
    ELSE IF username_is_valid(clean_up_username(input)) THEN "user"
    ELSE IF IsFile(world, input) THEN "file"
    ELSE "invalid"

\* the branch of __process_inputs_internal that an input takes: a link,
\* else a file, else a user name
Classify(world, input) ==
    IF link_is_valid(clean_up_link(input)) THEN "link"
    ELSE IF IsFile(world, input) THEN "file"
    ELSE IF username_is_valid(clean_up_username(input)) THEN "user"
    ELSE "invalid"

\* a whitelist filter that keeps every link
KeepAll(links, whitelist) == [err |-> "ok", links |-> links]

\* the whitelist loop of process_inputs: a link is removed once for each
\* user of the whitelist that is not its owner, and set.remove raises
\* KeyError the second time.  Which of ValueError (a link without an owner)
\* and KeyError comes first depends on the order of the two sets.
WhitelistFilter(links, whitelist) ==
    LET owner(l)  == extract_username_from_link(l)
        noowner   == {l \in links : owner(l).err # "ok"}
        others(l) == {u \in whitelist : owner(l).val # u}
        twice     == {l \in links \ noowner : Cardinality(others(l)) >= 2}
    IN  IF whitelist = {}
        THEN [err |-> "ok", links |-> links]
        ELSE IF noowner # {} /\ twice # {}
        THEN [err |-> "ValueError or KeyError", links |-> {}]
        ELSE IF noowner # {}
        THEN [err |-> "ValueError", links |-> {}]
        ELSE IF twice # {}
        THEN [err |-> "KeyError", links |-> {}]
        ELSE [err |-> "ok", links |-> {l \in links : others(l) = {}}]

\* a last loop that adds no user
NoBackFill(links, users) == users

\* the last loop of process_inputs: the owner of each link is added to the
\* users
BackFill(links, users) ==
    users \cup {extract_username_from_link(l).val : l \in links}

RECURSIVE process_inputs(_, _, _, _)
RECURSIVE process_inputs_internal(_, _, _, _, _, _)

\* scrape_from_file: an empty file, an HTML file or a list of inputs
scrape_from_file(world, path, whitelist, depth) ==
    LET lines    == world.files[world.paths[path]]
        contents == [i \in 1..Len(lines) |-> Strip(lines[i])]
        opened   == <<Event("open", path)>>
    IN  IF Len(contents) = 0
        THEN Outcome("ok", {}, {}, {}, <<>>, opened)
        ELSE IF contents[1] = Doctype
        THEN LET finds == HtmlFinds(contents) IN
             Outcome("ok",
                     {Carve(contents[f[1]], f[2]) : f \in finds},
                     {}, {path}, [k \in {path} |-> Cardinality(finds)],
                     opened)
        ELSE LET keep(line) == /\ line # <<>>
                               /\ ~the_same_filepath(world, path, line)
                 r == process_inputs(world, SelectSeq(contents, keep),
                                     whitelist, depth + 1)
             IN  [r EXCEPT !.log = opened \o @]

\* one round of the loop of __process_inputs_internal
ProcessInput(world, acc, input, whitelist, depth) ==
    CASE Classify(world, input) = "link" ->
             [acc EXCEPT !.links = @ \cup {clean_up_link(input)}]
      [] Classify(world, input) = "file" ->
             LET r == scrape_from_file(world, input, whitelist, depth) IN
             IF r.err # "ok"
             THEN [acc EXCEPT !.err = r.err, !.log = @ \o r.log]
             ELSE Outcome("ok", acc.links \cup r.links,
                          acc.users \cup r.users, acc.htmls \cup r.htmls,
                          DictMerge(acc.counts, r.counts), acc.log \o r.log)
      [] Classify(world, input) = "user" ->
             [acc EXCEPT !.links = @ \cup scrape_from_user(world, input),
                         !.users = @ \cup {clean_up_username(input)},
                         !.log = Append(@, Event("scrape", input))]
      [] OTHER ->
             [acc EXCEPT !.log = Append(@, Event("notice", input))]

\* __process_inputs_internal: the loop from the input at index i on
process_inputs_internal(world, inputs, i, acc, whitelist, depth) ==
    IF i > Len(inputs) \/ acc.err # "ok"
    THEN acc
    ELSE process_inputs_internal(world, inputs, i + 1,
             ProcessInput(world, acc, inputs[i], whitelist, depth),
             whitelist, depth)

\* process_inputs: the loop, the whitelist and the users of the links
process_inputs(world, inputs, whitelist, depth) ==
    IF depth > MaxDepth
    THEN Outcome("RecursionError", {}, {}, {}, <<>>, <<>>)
    ELSE
    LET ret  == process_inputs_internal(world, inputs, 1,
                    Outcome("ok", {}, {}, {}, <<>>, <<>>), whitelist, depth)
        kept == WhitelistFilter(ret.links, whitelist)
    IN  IF ret.err # "ok"
        THEN ret
        ELSE IF kept.err # "ok"
        THEN [ret EXCEPT !.err = kept.err]
        ELSE IF \E l \in kept.links : extract_username_from_link(l).err # "ok"
        THEN [ret EXCEPT !.err = "ValueError"]
        ELSE [ret EXCEPT !.links = kept.links,
                         !.users = BackFill(kept.links, @)]

\* LinkB as a page gives it: with a query
LinkBVar == LinkB \o <<"?", "x">>

\* the pages of the users "a" and "b": the page of "a" shows a video of "b"
Pages == (<<"a">> :> {LinkA, LinkB}) @@ (<<"b">> :> {LinkBVar})

\* a line of an HTML file that holds one anchor
Anchor(href) ==
    <<"<", "a", " ", "h", "r", "e", "f", "=", "\"">> \o href \o <<"\"", ">">>

\* the paths of the worlds: "f", "./f", "g", "h" and "b"
PathF == <<"f">>

PathDotF == <<".", "/", "f">>

PathG == <<"g">>

PathH == <<"h">>

PathB == <<"b">>

\* a world without files
NoFiles == [paths |-> <<>>, files |-> <<>>, pages |-> Pages]

\* a world with a list "f" (also "./f") that names itself, a user and an
\* invalid input, a list "g" that names "f", an HTML file "h", and a list
\* that has the name of the user "b" and a list that has the name of a link
Listed ==
    [paths |-> (PathF :> "F") @@ (PathDotF :> "F") @@ (PathG :> "G")
               @@ (PathH :> "H") @@ (PathB :> "B") @@ (LinkA :> "L"),
     files |-> ("F" :> <<LinkB \o <<" ">>, PathDotF, <<>>, <<"a">>, <<"!">>>>)
               @@ ("G" :> <<PathF, LinkAVar>>)
               @@ ("H" :> <<Doctype, Anchor(LinkA),
                            Anchor(LinkAShort) \o Anchor(LinkB)>>)
               @@ ("B" :> <<LinkA>>)
               @@ ("L" :> <<LinkB>>),
     pages |-> Pages]

\* a world with two lists that name each other
Cyclic ==
    [paths |-> (PathF :> "F") @@ (PathG :> "G"),
     files |-> ("F" :> <<PathG>>) @@ ("G" :> <<PathF, LinkA>>),
     pages |-> Pages]

Worlds == {NoFiles, Listed, Cyclic}

\* the inputs given to process_inputs
InputStrings ==
    {LinkA, LinkAVar, LinkB, PathF, PathG, PathH, PathB, <<"a">>, <<"!">>}

\* the largest number of inputs
MaxInputs == 2

\* "nonexistent_file.txt_placeholder"
NoSuchFile ==
    <<"n", "o", "n", "e", "x", "i", "s", "t", "e", "n", "t", "_", "f",
      "i", "l", "e", ".", "t", "x", "t", "_", "p", "l", "a", "c", "e",
      "h", "o", "l", "d", "e", "r">>

\* "not a valid user!!"
NotAUser ==
    <<"n", "o", "t", " ", "a", " ", "v", "a", "l", "i", "d", " ", "u",
      "s", "e", "r", "!", "!">>

\* the inputs of the scenario of a link, a name of no file and an invalid
\* input
ScenarioD == <<LinkA, NoSuchFile, NotAUser>>

\* the lists of inputs: every list of at most MaxInputs input strings, and
\* the scenario
InputLists ==
    UNION {[1..n -> InputStrings] : n \in 0..MaxInputs} \cup {ScenarioD}

\* the whitelists: none, one user, two users and three users
Whitelists ==
    {{}, {<<"a">>}, {<<"b">>}, {<<"a">>, <<"b">>},
     {<<"a">>, <<"b">>, <<"c">>}}

\* process_inputs(inputs, whitelist) in a world
CallProcessInputs(world, inputs, whitelist) ==
    \E out \in {process_inputs(world, inputs, whitelist, 0)} :
        /\ op' = [name |-> "process_inputs",
                  args |-> <<inputs, whitelist, world>>]
        /\ res' = [err |-> out.err, val |-> out]
        /\ UNCHANGED <<config, saved, dl>>

NextDl ==
    /\ op.name = "__init__"
    /\ \E world \in Worlds, inputs \in InputLists, whitelist \in Whitelists :
           CallProcessInputs(world, inputs, whitelist)

SpecDl == Init /\ [][NextDl]_vars

(***************************************************************************)
(* tiktok_config.list_user_objects.  A config is a function from user      *)
(* names to objects, an object a function from some of "date", "comment"   *)
(* and "ignore" to a string, a string and a number of links.               *)
(***************************************************************************)

\* the characters of the listed objects in the order of their code points
CodeOrder ==
    <<"\n", " ", ".", "0", "1", "2", "3", "4", "5", "6", "7", "8", "9", ":",
      "C", "E", "I", "N", "_", "a", "b", "c", "d", "e", "f", "g", "h", "i",
      "j", "k", "l", "m", "n", "o", "p", "q", "r", "s", "t", "u", "v", "w",
      "x", "y", "z", "~">>

\* ord(c), up to the order
Code(c) == CHOOSE i \in 1..Len(CodeOrder) : CodeOrder[i] = c

\* s < t for two str
StrLess(s, t) ==
    \E i \in 1..(Len(s) + 1) :
        /\ i <= Len(t)
        /\ SubSeq(s, 1, i - 1) = SubSeq(t, 1, i - 1)
        /\ \/ i = Len(s) + 1
           \/ Code(s[i]) < Code(t[i])

RECURSIVE SortInsert(_, _)
\* the sorted list with one more item, put after the items that are not
\* greater
SortInsert(sorted, item) ==
    IF sorted = <<>> \/ ~StrLess(item, sorted[Len(sorted)])
    THEN Append(sorted, item)
    ELSE Append(SortInsert(SubSeq(sorted, 1, Len(sorted) - 1), item),
                sorted[Len(sorted)])

RECURSIVE ListSort(_)
\* list.sort() of a list of str
ListSort(list) ==
    IF list = <<>>
    THEN <<>>
    ELSE SortInsert(ListSort(SubSeq(list, 1, Len(list) - 1)), list[Len(list)])

\* "~~~"
Tildes == <<"~", "~", "~">>

\* "~~~{user}~~~\n"
ObjectTitle(user) == Tildes \o user \o Tildes \o <<"\n">>

\* "No videos from before: "
TextDate ==
    <<"N", "o", " ", "v", "i", "d", "e", "o", "s", " ", "f", "r", "o",
      "m", " ", "b", "e", "f", "o", "r", "e", ":", " ">>

\* "Comment: "
TextComment ==
    <<"C", "o", "m", "m", "e", "n", "t", ":", " ">>

\* "Ignoring "
TextIgnoring ==
    <<"I", "g", "n", "o", "r", "i", "n", "g", " ">>

\* " links.\n"
TextLinks ==
    <<" ", "l", "i", "n", "k", "s", ".", "\n">>

\* "Empty.\n"
TextEmpty ==
    <<"E", "m", "p", "t", "y", ".", "\n">>

\* str(n) for the number of links of an ignore list
StrOfLen(n) == <<CodeOrder[n + 4]>>

\* the printable form of the object of a user
ObjectText(cfg, user) ==
    LET obj  == cfg[user]
        date == IF "date" \in DOMAIN obj
                THEN TextDate \o obj["date"] \o <<".", "\n">>
                ELSE <<>>
        comm == IF "comment" \in DOMAIN obj
                THEN TextComment \o obj["comment"] \o <<"\n">>
                ELSE <<>>
        ign  == IF "ignore" \in DOMAIN obj
                THEN TextIgnoring \o StrOfLen(obj["ignore"]) \o TextLinks
                ELSE <<>>
        text == date \o comm \o ign
    IN  ObjectTitle(user) \o (IF text = <<>> THEN TextEmpty ELSE text)

RECURSIVE ListedObjects(_, _, _)
\* the loop of list_user_objects from the user at index i on: the texts
\* of the users that have an object and a notice for each of the others
ListedObjects(cfg, users, i) ==
    IF i > Len(users)
    THEN [result |-> <<>>, log |-> <<>>]
    ELSE LET rest == ListedObjects(cfg, users, i + 1) IN
         IF users[i] \in DOMAIN cfg
         THEN [rest EXCEPT !.result = <<ObjectText(cfg, users[i])>> \o @]
         ELSE [rest EXCEPT !.log = <<Event("notice", users[i])>> \o @]

\* list_user_objects: the loop, the sort and the removal of the last
\* newline
list_user_objects(cfg, users) ==
    LET listed == ListedObjects(cfg, users, 1)
        result == ListSort(listed.result)
        n      == Len(result)
    IN  [result |-> IF n > 0
                    THEN [result EXCEPT ![n] = SubSeq(@, 1, Len(@) - 1)]
                    ELSE result,
         log    |-> listed.log]

\* objects: none of the keys, a comment, and all three keys
ObjEmpty == <<>>

ObjComment == ("comment" :> <<"c">>)

ObjFull == ("date" :> DateOne) @@ ("comment" :> <<>>) @@ ("ignore" :> 2)

\* the user names of the configs: "a", "ab" and "b"
ConfigUsers == {<<"a">>, <<"a", "b">>, <<"b">>}

\* the configs: any of the users with any of the objects
Configs ==
    UNION {[us -> {ObjEmpty, ObjComment, ObjFull}] : us \in SUBSET ConfigUsers}

\* the largest number of users asked for
MaxUsers == 2

\* the lists of users asked for: the users of the configs and one more
UserLists ==
    UNION {[1..n -> ConfigUsers \cup {<<"z">>}] : n \in 0..MaxUsers}

\* list_user_objects(config, users)
CallListUserObjects(cfg, users) ==
    \E out \in {list_user_objects(cfg, users)} :
        /\ op' = [name |-> "list_user_objects", args |-> <<cfg, users>>]
        /\ res' = [err |-> "ok", val |-> out]
        /\ UNCHANGED <<config, saved, dl>>

NextList ==
    /\ op.name = "__init__"
    /\ \E cfg \in Configs, users \in UserLists : CallListUserObjects(cfg, users)

SpecList == Init /\ [][NextList]_vars

(***************************************************************************)
(* tiktok_dl.download_st and download_mt.  A run is one call of            *)
(* download_st with its local variables: run 0 is a call in the thread of  *)
(* the caller, the runs 1, 2, ... are the calls of the DownloadStThreads   *)
(* that download_mt starts.  Next to the local variables a run keeps how   *)
(* often each link was given to ydl.download (calls) and how its last      *)
(* download ended (last).                                                  *)
(***************************************************************************)

\* how ydl.download(link) ends: it returns, or it raises a DownloadError or
\* ExtractorError whose cause is no HTTPError, an HTTPError with code 404,
\* or an HTTPError with another code
Downloads == {"ok", "error", "http404", "http500"}

\* the largest number of retries
MaxRetries == 1

\* the largest number of threads
MaxThreads == 2

\* user_config=None; a config that is given is [none |-> FALSE, ignored]
NoConfig == [none |-> TRUE, ignored |-> {}]

\* the result of a thread that has returned nothing
NoResult == [none |-> TRUE, failed |-> {}, not_found |-> {}]

\* UserConfig.is_ignored_link: the link is among the ignored links of the
\* config
is_ignored_link(user_config, link) == link \in user_config.ignored

\* the call download_st(original_links, folder, retries, user_config, ...)
\* before its first statement
NewRun(original_links, retries, user_config) ==
    [st |-> "new", original_links |-> original_links, retries |-> retries,
     user_config |-> user_config, attempt |-> 0, links |-> {}, todo |-> {},
     bad_links |-> {}, http_404_links |-> {}, completed |-> FALSE,
     result |-> NoResult, err |-> "", calls |-> <<>>, last |-> <<>>]

\* the statements of download_st before the loop: ValueError is raised
\* outside the try, so that no progress is reported
RunStart(run) ==
    IF run.retries < 0
    THEN [run EXCEPT !.st = "raised", !.err = "ValueError"]
    ELSE [run EXCEPT !.st = "running", !.links = run.original_links,
                     !.todo = run.original_links]

\* the number of times a link was given to ydl.download
CallsOf(run, link) ==
    IF link \in DOMAIN run.calls THEN run.calls[link] ELSE 0

\* ydl.download(link) and the except clause after it
RunDownload(run, link, download) ==
    [run EXCEPT
        !.calls = (link :> (CallsOf(run, link) + 1)) @@ @,
        !.last = (link :> download) @@ @,
        !.http_404_links = IF download = "http404" THEN @ \cup {link} ELSE @,
        !.bad_links = IF download = "error" THEN @ \cup {link} ELSE @]

\* one round of the inner loop of download_st, for an element of links.
\* With user_config=None, user_config.get_not_before raises AttributeError,
\* which the handler of the try reports as completed progress and raises
\* again.
RunLink(run, element, download) ==
    LET link == clean_up_link(element)
        rest == [run EXCEPT !.todo = @ \ {element}]
    IN  IF ~link_is_valid(link)
        THEN rest
        ELSE IF ~run.user_config.none
                /\ is_ignored_link(run.user_config, link)
        THEN rest
        ELSE IF run.user_config.none
        THEN [run EXCEPT !.st = "raised", !.err = "AttributeError",
                         !.completed = TRUE]
        ELSE RunDownload(rest, link, download)

\* the end of a round of the outer loop: the bad links are the links of the
\* next round; after the last round, or without bad links, the progress is
\* reported as completed and (links, http_404_links) is returned
RunEndRound(run) ==
    IF run.bad_links = {} \/ run.attempt = run.retries
    THEN [run EXCEPT !.st = "done", !.links = run.bad_links,
                     !.completed = TRUE,
                     !.result = [none |-> FALSE, failed |-> run.bad_links,
                                 not_found |-> run.http_404_links]]
    ELSE [run EXCEPT !.attempt = @ + 1, !.links = run.bad_links,
                     !.todo = run.bad_links, !.bad_links = {}]

\* the number of links of the i-th list of array_split(list(links), threads)
SplitSize(n, threads, i) ==
    (n \div threads) + (IF i <= n % threads THEN 1 ELSE 0)

\* array_split(list(links), threads), as the index of the list that each
\* link is put in; the order of list(links) is any order
ArraySplit(links, threads) ==
    {f \in [links -> 1..threads] :
        \A i \in 1..threads :
            Cardinality({l \in links : f[l] = i})
                = SplitSize(Cardinality(links), threads, i)}

\* the links given to download_st and download_mt
DlStrings == {LinkA, LinkAVar, LinkB, <<"!">>}

\* the configs given: None, no ignored link, and LinkB ignored
DlConfigs ==
    {NoConfig, [none |-> FALSE, ignored |-> {}],
     [none |-> FALSE, ignored |-> {LinkB}]}

\* the state a call of a download function leaves
Downloading(name, args, pc, runs, err) ==
    /\ op' = [name |-> name, args |-> args]
    /\ dl' = [pc |-> pc, runs |-> runs]
    /\ res' = [err |-> err, val |-> NoResult]
    /\ UNCHANGED <<config, saved>>

\* download_st(links, retries=retries, user_config=user_config)
CallDownloadSt(links, retries, user_config) ==
    Downloading("download_st", <<links, 1, retries, user_config>>, "st",
                0 :> NewRun(links, retries, user_config), "running")

\* download_mt(links, threads=threads, retries=retries,
\* user_config=user_config): ValueError for less than one thread,
\* download_st for one thread, and else a DownloadStThread is started for
\* each list of the split that is not empty
CallDownloadMt(links, threads, retries, user_config) ==
    LET args == <<links, threads, retries, user_config>> IN
    IF threads < 1
    THEN Downloading("download_mt", args, "raised", <<>>, "ValueError")
    ELSE IF threads = 1
    THEN Downloading("download_mt", args, "st",
                     0 :> NewRun(links, retries, user_config), "running")
    ELSE \E split \in ArraySplit(links, threads) :
             LET list(i) == {l \in links : split[l] = i}
                 started == {i \in 1..threads : list(i) # {}}
             IN  Downloading("download_mt", args, "poll",
                             [i \in started |->
                                 NewRun(list(i), retries, user_config)],
                             "running")

\* a step of the run of thread t
StepRun(t, run) ==
    /\ dl' = [dl EXCEPT !.runs[t] = run]
    /\ UNCHANGED <<config, saved, op, res>>

\* thread t enters download_st
StepStart(t) ==
    /\ dl.runs[t].st = "new"
    /\ StepRun(t, RunStart(dl.runs[t]))

\* thread t handles one of the links of the round, in any order
StepLink(t) ==
    /\ dl.runs[t].st = "running"
    /\ \E element \in dl.runs[t].todo, download \in Downloads :
           StepRun(t, RunLink(dl.runs[t], element, download))

\* thread t has handled the links of the round
StepEndRound(t) ==
    /\ dl.runs[t].st = "running"
    /\ dl.runs[t].todo = {}
    /\ StepRun(t, RunEndRound(dl.runs[t]))

\* download_st in the thread of the caller returns or raises
ReturnSt ==
    /\ dl.pc = "st"
    /\ dl.runs[0].st \in {"done", "raised"}
    /\ dl' = [dl EXCEPT !.pc = IF dl.runs[0].st = "done"
                               THEN "returned" ELSE "raised"]
    /\ res' = IF dl.runs[0].st = "done"
              THEN [err |-> "ok", val |-> dl.runs[0].result]
              ELSE [err |-> dl.runs[0].err, val |-> NoResult]
    /\ UNCHANGED <<config, saved, op>>

\* one round of the while loop of download_mt: it reads the progress of
\* each thread and leaves the loop when all are completed, and else sleeps
\* and reads again
Poll ==
    /\ dl.pc = "poll"
    /\ dl' = IF \A t \in DOMAIN dl.runs : dl.runs[t].completed
             THEN [dl EXCEPT !.pc = "join"]
             ELSE dl
    /\ UNCHANGED <<config, saved, op, res>>

\* download_mt joins the threads and returns the unions of their results;
\* a thread that raised has the result None and adds nothing
Join ==
    /\ dl.pc = "join"
    /\ \A t \in DOMAIN dl.runs : dl.runs[t].st \in {"done", "raised"}
    /\ LET results == {dl.runs[t].result :
                          t \in {u \in DOMAIN dl.runs :
                                    ~dl.runs[u].result.none}}
       IN  res' = [err |-> "ok",
                   val |-> [none |-> FALSE,
                            failed |-> UNION {r.failed : r \in results},
                            not_found |->
                                UNION {r.not_found : r \in results}]]
    /\ dl' = [dl EXCEPT !.pc = "returned"]
    /\ UNCHANGED <<config, saved, op>>

\* the steps of the runs
StepThreads ==
    \E t \in DOMAIN dl.runs :
        \/ StepStart(t)
        \/ StepLink(t)
        \/ StepEndRound(t)

\* before the call of a download function: nothing was returned yet
InitDownload ==
    /\ config = <<>>
    /\ saved = NoFile
    /\ op = [name |-> "__init__", args |-> <<>>]
    /\ res = [err |-> "ok", val |-> NoResult]
    /\ dl = NoDownload

NextSt ==
    \/ /\ op.name = "__init__"
       /\ \E links \in SUBSET DlStrings, retries \in (-1)..MaxRetries,
             user_config \in DlConfigs :
              CallDownloadSt(links, retries, user_config)
    \/ StepThreads
    \/ ReturnSt

SpecSt == InitDownload /\ [][NextSt]_vars

NextMt ==
    \/ /\ op.name = "__init__"
       /\ \E links \in SUBSET DlStrings, threads \in 0..MaxThreads,
             retries \in (-1)..MaxRetries, user_config \in DlConfigs :
              CallDownloadMt(links, threads, retries, user_config)
    \/ StepThreads
    \/ ReturnSt
    \/ Poll
    \/ Join

SpecMt == InitDownload /\ [][NextMt]_vars

\* the threads are scheduled and the caller goes on as long as a step is
\* left to take
SpecMtLive == SpecMt /\ WF_vars(NextMt)

(***************************************************************************)
(* Properties                                                              *)
(***************************************************************************)

\* the folded form of a raw user name: trimmed, lower-case
Folded(s) == Lower(Strip(s))

\* an element of "ignore" that is a link-valid string once normalized
KeptItem(x) == x.t = "str" /\ LinkIsValid(CleanLink(x.v))

\* the normalized link-valid elements of an "ignore" array, in its order
KeptLinks(items) ==
    LET kept == SelectSeq(items, KeptItem)
    IN  [i \in 1..Len(kept) |-> CleanLink(kept[i].v)]

\* the user object that a member of a document stands for
RecordOf(e) ==
    [notbefore |-> Strip(e.nb.v), ignore |-> KeptLinks(e.ig.items),
     comment |-> e.cm]

\* the members of the file of the last load_config
LoadedEntries == op.args[1].entries

\* the ignore collection of a user, empty for a user that is not configured
IgnoreSet(cfg, name) ==
    IF name \in DOMAIN cfg
    THEN {cfg[name].ignore[i] : i \in 1..Len(cfg[name].ignore)}
    ELSE {}

\* two calls end the same way: same exception, same store, same value
SameOutcome(r1, r2) ==
    /\ r1.err = r2.err
    /\ r1.cfg = r2.cfg
    /\ r1.err = "ok" => r1.val = r2.val

\* C1: load_config is all-or-nothing. A load that raises leaves the store
\* as it was before the call; a load that returns leaves exactly the folded
\* keys of the document, each with the record of a member of that name.
C1_LoadAllOrNothing ==
    [][op'.name = "load_config" =>
          IF res'.err # "ok"
          THEN config' = config
          ELSE LET es == op'.args[1].entries IN
               /\ DOMAIN config' = {Folded(es[i].key) : i \in 1..Len(es)}
               /\ \A u \in DOMAIN config' :
                      \E i \in 1..Len(es) :
                          /\ Folded(es[i].key) = u
                          /\ config'[u] = RecordOf(es[i])]_vars

\* C1 witness: a load has failed on a store that holds users, which it kept.
C1_FailedLoadOnFilledStore ==
    /\ op.name = "load_config"
    /\ res.err = "KeyError"
    /\ DOMAIN config = {<<"a">>, <<"b">>}

\* C2: when a loaded document has a non-canonical key and its folded form
\* as another key, the store holds the record of the canonical key under the
\* folded name, whichever of the two comes first.
C2_CanonicalRecordWins ==
    (op.name = "load_config" /\ res.err = "ok") =>
        \A i, j \in 1..Len(LoadedEntries) :
            (/\ LoadedEntries[i].key # Folded(LoadedEntries[i].key)
             /\ LoadedEntries[j].key = Folded(LoadedEntries[i].key))
            => config[LoadedEntries[j].key] = RecordOf(LoadedEntries[j])

\* C3: save_config succeeds in every reachable store state and a load of
\* the saved file yields the store that was saved.
C3_SaveLoadRoundTrip ==
    op.name = "save_config" =>
        /\ res.err = "ok"
        /\ LoadConfig(<<>>, saved).err = "ok"
        /\ LoadConfig(<<>>, saved).cfg = config

\* C4: in every reachable store state, two consecutive toggle_ignore_link
\* calls with a valid link leave the ignore collection of its owner as it
\* was, and return True then False when the link was not ignored before.
C4_ToggleTwiceRestores ==
    \A link \in RawLinks :
        LinkIsValid(CleanLink(link)) =>
            LET owner  == LinkUser(CleanLink(link))
                first  == ToggleIgnoreLink(config, link)
                second == ToggleIgnoreLink(first.cfg, link)
            IN  /\ first.err = "ok"
                /\ second.err = "ok"
                /\ IgnoreSet(second.cfg, owner) = IgnoreSet(config, owner)
                /\ CleanLink(link) \notin IgnoreSet(config, owner)
                       => first.val = TRUE /\ second.val = FALSE

\* C5: toggle_ignore_link with a link that is not valid after normalization
\* raises ValueError and leaves the store unchanged.
C5_InvalidLinkRaisesValueError ==
    [][(/\ op'.name = "toggle_ignore_link"
        /\ ~LinkIsValid(CleanLink(op'.args[1])))
       => (res'.err = "ValueError" /\ config' = config)]_vars

\* C6: every key of the store is in folded form and no two keys have the
\* same folded form; a document of valid members loads, and each of its
\* keys is then found under its folded form.
C6_KeysAreFolded ==
    /\ \A u \in DOMAIN config : u = Folded(u)
    /\ \A u, v \in DOMAIN config : Folded(u) = Folded(v) => u = v
    /\ (/\ op.name = "load_config"
        /\ op.args[1].kind = "object"
        /\ \A i \in 1..Len(LoadedEntries) : LoadedEntries[i] \in GoodEntries)
       => /\ res.err = "ok"
          /\ \A i \in 1..Len(LoadedEntries) :
                 Folded(LoadedEntries[i].key) \in DOMAIN config

\* C6 witness: a document with the one key "A" is loaded and the store has
\* the user "a".
C6_UpperCaseKeyLoaded ==
    /\ op.name = "load_config"
    /\ res.err = "ok"
    /\ Len(LoadedEntries) = 1
    /\ LoadedEntries[1].key = <<"A">>
    /\ DOMAIN config = {<<"a">>}

\* C7: in every reachable store state every link of a user's ignore
\* collection is link-valid and is owned by that user.
C7_IgnoredLinksAreOwned ==
    \A u \in DOMAIN config :
        \A i \in 1..Len(config[u].ignore) :
            /\ LinkIsValid(config[u].ignore[i])
            /\ LinkUser(config[u].ignore[i]) = u

\* C8: two raw user names with the same folded form give the same result
\* and the same store in user_is_configured, get_not_before, get_comment,
\* get_ignore_links, set_not_before, set_comment and delete_user.
C8_CaseInsensitiveIdentity ==
    \A u1, u2 \in RawUsers :
        Folded(u1) = Folded(u2) =>
            /\ SameOutcome(UserIsConfigured(config, u1),
                           UserIsConfigured(config, u2))
            /\ SameOutcome(GetNotBefore(config, u1), GetNotBefore(config, u2))
            /\ SameOutcome(GetComment(config, u1), GetComment(config, u2))
            /\ SameOutcome(GetIgnoreLinks(config, u1),
                           GetIgnoreLinks(config, u2))
            /\ \A date \in RawDates :
                   SameOutcome(SetNotBefore(config, u1, date),
                               SetNotBefore(config, u2, date))
            /\ \A comment \in Values :
                   SameOutcome(SetComment(config, u1, comment),
                               SetComment(config, u2, comment))
            /\ SameOutcome(DeleteUser(config, u1), DeleteUser(config, u2))

\* C8 witness: set_not_before was called with "\tA " and the user "a" has
\* the date.
C8_PaddedUpperCaseNameSet ==
    /\ op.name = "set_not_before"
    /\ op.args[1] = <<"\t", "A", " ">>
    /\ res.err = "ok"
    /\ <<"a">> \in DOMAIN config
    /\ config[<<"a">>].notbefore = DateOne

\* C9: load_config raises ValueError whenever the first member that does
\* not load has a "notbefore" that is not a string of 8 digits after
\* trimming, a number included.
C9_BadDateRaisesValueError ==
    op.name = "load_config" =>
        \A i \in 1..Len(LoadedEntries) :
            (/\ \A j \in 1..(i - 1) : LoadedEntries[j] \in GoodEntries
             /\ UsernameIsValid(Folded(LoadedEntries[i].key))
             /\ LoadedEntries[i].t = "object"
             /\ LoadedEntries[i].nb.t # "absent"
             /\ \/ LoadedEntries[i].nb.t # "str"
                \/ ~DateIsValid(Strip(LoadedEntries[i].nb.v)))
            => res.err = "ValueError"

\* C10: load_config never stores a comment that is not a string: a load
\* that returns leaves only string comments.
C10_LoadedCommentsAreStrings ==
    (op.name = "load_config" /\ res.err = "ok") =>
        \A u \in DOMAIN config : config[u].comment.t = "str"

\* a member of a document that loads whatever its "ignore" array holds: a
\* valid key, a date for "notbefore", a "comment" and a list for "ignore"
GoodButIgnore(e) ==
    /\ UsernameIsValid(Folded(e.key))
    /\ e.t = "object"
    /\ e.nb.t = "str" /\ DateIsValid(Strip(e.nb.v))
    /\ e.cm.t # "absent"
    /\ e.ig.t = "list"

\* C11: load_config never fails because of what an "ignore" array holds.
\* A document whose members are sound but for the items of their "ignore"
\* arrays loads, and each user gets the record of a member of that name: the
\* link-valid items normalized, the other items (a number included) dropped.
C11_IgnoreItemsNeverFailLoad ==
    (/\ op.name = "load_config"
     /\ op.args[1].kind = "object"
     /\ \A i \in 1..Len(LoadedEntries) : GoodButIgnore(LoadedEntries[i]))
    => /\ res.err = "ok"
       /\ \A u \in DOMAIN config :
              \E i \in 1..Len(LoadedEntries) :
                  /\ Folded(LoadedEntries[i].key) = u
                  /\ config[u] = RecordOf(LoadedEntries[i])

\* C12: a set_not_before that fails leaves the store as it was, and it
\* fails when the date is not 8 digits after trimming or the user name is
\* not valid.
C12_FailedSetNotBeforeKeepsStore ==
    [][op'.name = "set_not_before" =>
          /\ (\/ ~DateIsValid(Strip(op'.args[2]))
              \/ ~UsernameIsValid(Folded(op'.args[1]))) => res'.err # "ok"
          /\ res'.err # "ok" => config' = config]_vars

\* C12 witness: set_not_before("a", "2020050") has failed on an empty store
\* and "a" is not configured.
C12_ShortDateOnEmptyStore ==
    /\ op.name = "set_not_before"
    /\ op.args = <<<<"a">>, DateShort>>
    /\ res.err = "ValueError"
    /\ config = <<>>

\* C13: set_not_before with a valid date and a valid user name returns; a
\* user that was not configured gets the default object with the trimmed
\* date, a configured one changes in "notbefore" only, and no other user
\* changes.
C13_SetNotBeforeWritesOneField ==
    [][(/\ op'.name = "set_not_before"
        /\ DateIsValid(Strip(op'.args[2]))
        /\ UsernameIsValid(Folded(op'.args[1])))
       => LET u == Folded(op'.args[1])
              d == Strip(op'.args[2])
          IN  /\ res'.err = "ok"
              /\ DOMAIN config' = DOMAIN config \cup {u}
              /\ \A v \in DOMAIN config \ {u} : config'[v] = config[v]
              /\ config'[u] =
                     IF u \in DOMAIN config
                     THEN [config[u] EXCEPT !.notbefore = d]
                     ELSE [notbefore |-> d, ignore |-> <<>>,
                           comment |-> JStr(<<>>)]]_vars

\* C13 witness: set_not_before("\tA ", " 20200505\n") has made the user "a"
\* next to the user "b", whose object holds a link.
C13_NewUserNextToAnother ==
    /\ op.name = "set_not_before"
    /\ op.args = <<<<"\t", "A", " ">>, Padded>>
    /\ res.err = "ok"
    /\ DOMAIN config = {<<"a">>, <<"b">>}
    /\ config[<<"a">>] = [notbefore |-> DateOne, ignore |-> <<>>,
                          comment |-> JStr(<<>>)]
    /\ config[<<"b">>].ignore = <<LinkB>>

\* C14: set_comment with a comment that is not a string raises TypeError
\* and leaves the store as it was; with a string it stores the string as it
\* is given under the folded user name.
C14_NonStringCommentRaisesTypeError ==
    [][op'.name = "set_comment" =>
          IF op'.args[2].t # "str"
          THEN res'.err = "TypeError" /\ config' = config
          ELSE UsernameIsValid(Folded(op'.args[1])) =>
                   /\ res'.err = "ok"
                   /\ config'[Folded(op'.args[1])].comment = op'.args[2]]_vars

\* C15: get_not_before, get_comment, get_ignore_links and delete_user for a
\* user that is not configured raise KeyError and leave the store as it was.
C15_UnknownUserRaisesKeyError ==
    [][(/\ op'.name \in {"get_not_before", "get_comment", "get_ignore_links",
                         "delete_user"}
        /\ Folded(op'.args[1]) \notin DOMAIN config)
       => (res'.err = "KeyError" /\ config' = config)]_vars

\* C15 witness: get_comment("\tA ") has failed on a store that holds the
\* user "b" only.
C15_GetCommentOfUnknownUser ==
    /\ op.name = "get_comment"
    /\ op.args = <<<<"\t", "A", " ">>>>
    /\ res.err = "KeyError"
    /\ DOMAIN config = {<<"b">>}

\* every character of s is a digit
AllDigits(s) == \A i \in 1..Len(s) : s[i] \in Digits

\* C16: the normalization of a link is idempotent. The link of a Link is
\* left as it is when a Link is made of it again.
C16_CleanLinkIdempotent ==
    op.name = "Link" => CleanLink(res.val.link) = res.val.link

\* C17: a link https://www.tiktok.com/@{name}/video/{id} with a valid name
\* is valid exactly when the id is 19 digits, a string with a ?query is not
\* matched by the expression before it is normalized, and a date is valid
\* exactly when it is 8 digits.
C17_ValidityBoundary ==
    /\ op.name = "Link.is_valid" =>
           \A name \in LinkNames, id \in LinkIds :
               (/\ UsernameIsValid(name)
                /\ op.args[1] = LinkPrefix \o name \o LinkVideo \o id)
               => (res.val <=> (Len(id) = IdLen /\ AllDigits(id)))
    /\ (op.name = "Link" /\ Find(op.args[1], "?") > 0) =>
           ~LinkIsValid(op.args[1])
    /\ op.name = "Date.is_valid" =>
           (res.val <=> (Len(op.args[1]) = DateLen /\ AllDigits(op.args[1])))

\* C17 witness: is_valid() has rejected the link whose id has 20 digits.
C17_TwentyDigitsRejected ==
    /\ op.name = "Link.is_valid"
    /\ op.args[1] = MkLink(<<"a">>, IdLen + 1)
    /\ res.val = FALSE

\* the cleaned form of an input is a valid link
InputIsLink(input) == link_is_valid(clean_up_link(input))

\* C18: each input, given to process_inputs or read as a line of a list, is
\* taken by the first rule of link, existing file, user name, invalid. An
\* input that is a link is added to the links and is neither opened nor
\* scraped, an input that names a file is opened and is not scraped even
\* when it is a valid user name, and only an input that is neither is
\* scraped.
C18_LinkThenFileThenUser ==
    op.name = "process_inputs" =>
        LET inputs    == op.args[1]
            whitelist == op.args[2]
            world     == op.args[3]
            log       == res.val.log
            logged(e) == \E k \in 1..Len(log) : log[k] = e
        IN  /\ \A k \in 1..Len(log) :
                   /\ log[k].ev = "open" =>
                          /\ ~InputIsLink(log[k].arg)
                          /\ IsFile(world, log[k].arg)
                   /\ log[k].ev = "scrape" =>
                          /\ ~InputIsLink(log[k].arg)
                          /\ ~IsFile(world, log[k].arg)
                          /\ username_is_valid(clean_up_username(log[k].arg))
                   /\ log[k].ev = "notice" =>
                          /\ ~InputIsLink(log[k].arg)
                          /\ ~IsFile(world, log[k].arg)
                          /\ ~username_is_valid(clean_up_username(log[k].arg))
            /\ res.err = "ok" =>
                   \A k \in 1..Len(inputs) :
                       LET input == inputs[k] IN
                       /\ (InputIsLink(input) /\ whitelist = {}) =>
                              clean_up_link(input) \in res.val.links
                       /\ (~InputIsLink(input) /\ IsFile(world, input)) =>
                              logged(Event("open", input))
                       /\ (/\ ~InputIsLink(input)
                           /\ ~IsFile(world, input)
                           /\ username_is_valid(clean_up_username(input))) =>
                              logged(Event("scrape", input))

\* C18 witness: the file "b", whose name is a valid user name, has been
\* opened and not scraped, and the link that is also the name of a file has
\* been added and not opened.
C18_FileNamedAsUserOpened ==
    /\ op.name = "process_inputs"
    /\ op.args = <<(<<PathB, LinkA>>), {}, Listed>>
    /\ res.err = "ok"
    /\ username_is_valid(clean_up_username(PathB))
    /\ IsFile(Listed, LinkA)
    /\ res.val.log = <<Event("open", PathB)>>
    /\ LinkA \in res.val.links

\* process_inputs of the same inputs in the same world without a whitelist
Unfiltered == process_inputs(op.args[3], op.args[1], {}, 0)

\* C19: with a whitelist of any size, process_inputs returns, and every
\* link of the result without a whitelist whose owner is in the whitelist
\* is in the result; only the links of other owners are removed.
C19_WhitelistedOwnersKept ==
    (/\ op.name = "process_inputs"
     /\ op.args[2] # {}
     /\ Unfiltered.err = "ok") =>
        /\ res.err = "ok"
        /\ res.val.links =
               {l \in Unfiltered.links :
                    extract_username_from_link(l).val \in op.args[2]}

\* C20: when process_inputs returns with a whitelist, its links are links
\* of the result without a whitelist, and the owner of each is in the
\* whitelist.
C20_FilteredIsSubset ==
    (/\ op.name = "process_inputs"
     /\ op.args[2] # {}
     /\ res.err = "ok") =>
        /\ Unfiltered.err = "ok"
        /\ res.val.links \subseteq Unfiltered.links
        /\ \A l \in res.val.links :
               /\ extract_username_from_link(l).err = "ok"
               /\ extract_username_from_link(l).val \in op.args[2]

\* C20 witness: a whitelist has removed one link of the page of a user and
\* kept another.
C20_OneKeptOneRemoved ==
    /\ op.name = "process_inputs"
    /\ op.args[2] # {}
    /\ res.err = "ok"
    /\ res.val.links # {}
    /\ Unfiltered.links \ res.val.links # {}

\* C21: process_inputs returns for every list of inputs and every
\* whitelist: an invalid input is noticed and passed over, and the inputs
\* after it are still taken.
C21_ProcessInputsAlwaysReturns ==
    op.name = "process_inputs" =>
        LET inputs == op.args[1]
            world  == op.args[3]
            log    == res.val.log
        IN  /\ res.err = "ok"
            /\ \A k \in 1..Len(inputs) :
                   Classify(world, inputs[k]) = "invalid" =>
                       \E n \in 1..Len(log) : log[n] = Event("notice", inputs[k])

\* the number of entries of a log that are the event ev
CountEvents(log, ev) == Cardinality({n \in 1..Len(log) : log[n].ev = ev})

\* the scenario has been run: its inputs, no whitelist, no files
ScenarioDRun ==
    /\ op.name = "process_inputs"
    /\ op.args = <<ScenarioD, {}, NoFiles>>

\* C22 as stated: the scenario gives one link, two notices of invalid
\* inputs and no exception, and its second input is never scraped.
C22_ScenarioDTwoNotices ==
    ScenarioDRun =>
        /\ res.err = "ok"
        /\ Cardinality(res.val.links) = 1
        /\ CountEvents(res.val.log, "notice") = 2
        /\ \A n \in 1..Len(res.val.log) :
               res.val.log[n] # Event("scrape", NoSuchFile)

\* C22 amended: the scenario gives one link and no exception; its second
\* input is a valid user name and is scraped, and only its third input is
\* noticed as invalid.
C22_ScenarioDOneNotice ==
    ScenarioDRun =>
        /\ res.err = "ok"
        /\ res.val.links = {LinkA}
        /\ res.val.log = <<Event("scrape", NoSuchFile),
                           Event("notice", NotAUser)>>

\* C22 witness: the scenario has been run and has returned.
C22_ScenarioDReturned ==
    /\ ScenarioDRun
    /\ res.err = "ok"
    /\ Len(res.val.log) = 2

\* the owners of the links that process_inputs has returned
OwnersOfLinks == {extract_username_from_link(l).val : l \in res.val.links}

\* the cleaned user names that have been scraped
ScrapedUsers ==
    {clean_up_username(res.val.log[n].arg) :
        n \in {i \in 1..Len(res.val.log) : res.val.log[i].ev = "scrape"}}

\* C23 as stated: the users that process_inputs returns are exactly the
\* owners of the links that it returns.
C23_UsersAreExactlyOwners ==
    (op.name = "process_inputs" /\ res.err = "ok") =>
        res.val.users = OwnersOfLinks

\* C23 amended: the users that process_inputs returns are the owners of the
\* links that it returns and the user names that were scraped, whether or
\* not a link of theirs is returned.
C23_UsersAreOwnersAndScraped ==
    (op.name = "process_inputs" /\ res.err = "ok") =>
        /\ OwnersOfLinks \subseteq res.val.users
        /\ res.val.users = OwnersOfLinks \cup ScrapedUsers

\* C23 witness: a link found in a list has been returned with its owner,
\* while a scraped user whose links the whitelist has removed is returned
\* as well.
C23_OwnerOfListedLinkAdded ==
    /\ op.name = "process_inputs"
    /\ op.args = <<(<<PathF>>), {<<"b">>}, Listed>>
    /\ res.err = "ok"
    /\ res.val.links # {}
    /\ OwnersOfLinks = {<<"b">>}
    /\ res.val.users = {<<"a">>, <<"b">>}

\* C24: every link that process_inputs returns is a valid link in its
\* cleaned form, whether it was an input, a line of a list, a link of an
\* HTML file or a link of the page of a user; hence two inputs with the same
\* cleaned form give one link.
C24_ReturnedLinksAreCanonical ==
    (op.name = "process_inputs" /\ res.err = "ok") =>
        \A l \in res.val.links :
            /\ link_is_valid(l)
            /\ clean_up_link(l) = l

\* the number of times that a file of the world Listed has been opened,
\* under any of its paths
OpensOf(file) ==
    Cardinality({n \in 1..Len(res.val.log) :
                    /\ res.val.log[n].ev = "open"
                    /\ Listed.paths[res.val.log[n].arg] = file})

\* the number of inputs that are a path of a file of the world Listed
InputsOf(file) ==
    Cardinality({k \in 1..Len(op.args[1]) :
                    /\ Classify(Listed, op.args[1][k]) = "file"
                    /\ Listed.paths[op.args[1][k]] = file})

\* C25: a list that names itself, under any of its paths, is not expanded
\* again by its own line. In the world where the list "f" names itself as
\* "./f" and the list "g" names "f", process_inputs does not end in
\* RecursionError, "f" is opened once for each input "f" or "g", and the
\* links of the other lines of "f" are returned.
C25_SelfReferenceNotExpanded ==
    (op.name = "process_inputs" /\ op.args[3] = Listed) =>
        /\ res.err # "RecursionError"
        /\ res.err = "ok" => OpensOf("F") = InputsOf("F") + InputsOf("G")
        /\ (/\ res.err = "ok"
            /\ op.args[2] = {}
            /\ InputsOf("F") >= 1) =>
               ({CleanLink(LinkB)} \cup Pages[<<"a">>]) \subseteq res.val.links

\* C25 witness: the list "f", which names itself as "./f", has been opened
\* once and the links of its other lines have been returned.
C25_SelfNamingListExpandedOnce ==
    /\ op.name = "process_inputs"
    /\ op.args = <<(<<PathF>>), {}, Listed>>
    /\ the_same_filepath(Listed, PathF, PathDotF)
    /\ res.err = "ok"
    /\ OpensOf("F") = 1
    /\ res.val.links = {LinkA, LinkB}

\* the number of "open" events of the path in the log
OpensOfPath(path) ==
    Cardinality({n \in 1..Len(res.val.log) :
                    res.val.log[n] = Event("open", path)})

\* C26: process_inputs returns for every set of lists, also when two lists
\* name each other: it never ends in RecursionError, and a list is opened
\* at most once for each input that leads to it.
C26_CyclesTerminate ==
    op.name = "process_inputs" =>
        /\ res.err # "RecursionError"
        /\ op.args[3] = Cyclic =>
               \A path \in DOMAIN Cyclic.paths :
                   OpensOfPath(path) <= Len(op.args[1])

\* the users of the list that have an object in the config, in the order
\* of the list
UsersFound(cfg, users) == SelectSeq(users, LAMBDA u : u \in DOMAIN cfg)

\* C27: list_user_objects returns the printable forms of the objects of the
\* users that exist, in the order in which the users were given.
C27_ListedInGivenOrder ==
    op.name = "list_user_objects" =>
        LET found  == UsersFound(op.args[1], op.args[2])
            result == res.val.result
        IN  /\ Len(result) = Len(found)
            /\ \A i \in 1..Len(found) :
                   SubAt(result[i], 1, ObjectTitle(found[i]))

\* C28: download_mt with retries < 0 raises ValueError, for any number of
\* threads from one on and any set of links: once it is called so, it comes
\* to raise ValueError, also with two or more threads.
C28_NegativeRetriesRaise ==
    (/\ op.name = "download_mt"
     /\ op.args[2] >= 1
     /\ op.args[3] < 0) ~> (res.err = "ValueError")

\* C29: download_st with retries >= 0 gives each link to ydl.download at
\* most retries + 1 times, gives it in a later round only when its download
\* failed in the round before, never gives it again after a 404, and
\* returns at the end of the first round without a failed link.
C29_RetriesOnlyOfFailedLinks ==
    [][(op.name = "download_st" /\ dl.runs[0].retries >= 0) =>
          LET run  == dl.runs[0]
              next == dl'.runs[0]
          IN  /\ \A link \in DOMAIN next.calls :
                     /\ next.calls[link] <= run.retries + 1
                     /\ next.calls[link] > CallsOf(run, link) =>
                            /\ link \notin run.http_404_links
                            /\ run.attempt >= 1 =>
                                   /\ link \in DOMAIN run.last
                                   /\ run.last[link] = "error"
              /\ (/\ run.st = "running"
                  /\ run.todo = {}
                  /\ run.bad_links = {}) => next.st = "done"]_vars

\* C30: when download_st returns (failed, not_found), a link whose last
\* download ended with HTTP 404 is in not_found only, a link whose last
\* download ended with any other error is in failed only, a link whose last
\* download succeeded is in neither, and the two sets are disjoint.
C30_ReturnedSetsPartitionErrors ==
    (op.name = "download_st" /\ res.err = "ok") =>
        LET last == dl.runs[0].last
        IN  /\ res.val.failed \cap res.val.not_found = {}
            /\ \A link \in DOMAIN last :
                   /\ last[link] = "http404" =>
                          /\ link \in res.val.not_found
                          /\ link \notin res.val.failed
                   /\ last[link] \in {"error", "http500"} =>
                          /\ link \in res.val.failed
                          /\ link \notin res.val.not_found
                   /\ last[link] = "ok" =>
                          /\ link \notin res.val.failed
                          /\ link \notin res.val.not_found

====
